---- MODULE Spec2Model ----
(***************************************************************************)
(* Session lifecycle of the LectureLogic recorder (src/App.tsx): the       *)
(* React state of App, its refs, the browser objects the handlers create   *)
(* (microphone streams, MediaRecorders, interval timers, object URLs) and   *)
(* the asynchronous calls in flight (getUserMedia, the recorder's stop      *)
(* task, generateNotesFromAudio).                                          *)
(*                                                                         *)
(* Every handler runs to its next await as one step; the part after an     *)
(* await is a separate step that the environment schedules.  A click is    *)
(* possible only where the render shows the control enabled.               *)
(*                                                                         *)
(* Each call of startRecording has an index k; the stream, the recorder,   *)
(* the timer, the session id and the object URL that call creates are all  *)
(* named k.  The number 0 stands for null in a ref or state that holds an  *)
(* object, "null" for null in a string-valued field, <<>> for a null       *)
(* session (a present session is a one-element sequence).                  *)
(* NoteSession.timestamp (Date.now()) is not modelled.                      *)
(*                                                                         *)
(* The Visualizer (src/components/Visualizer.tsx) is mounted while the     *)
(* state is RECORDING.  The render that follows a step of App, with the    *)
(* cleanup and the run of the Visualizer's effect it causes, is part of    *)
(* that step.  An effect run for the stream k names its source node and    *)
(* its animation-frame request k.  The canvas always gives a 2d context.   *)
(*                                                                         *)
(* renderMarkdown (src/App.tsx) is a pure function of the notes text.  It  *)
(* is modelled on texts that are sequences of characters and checked under *)
(* a specification of its own, SpecFmt, that draws the text and renders    *)
(* it; under Spec the text stays empty and unrendered.                     *)
(***************************************************************************)
EXTENDS Integers, Sequences, FiniteSets, TLC

\* Bounds of the model.
MaxStarts == 2      \* calls of startRecording over a run
MaxGens   == 2      \* calls of generateNotes over a run
MaxTicks  == 3      \* the elapsed counter is capped here
MaxTextLen == 5     \* characters of a notes text given to renderMarkdown

Null == "null"
ErrMic == "Microphone access denied or not available."
ErrGen == "Failed to generate notes. Please try again."
Fallback == "No notes could be generated."

\* What the generation backend may answer (response.text): nothing, or text.
ResponseTexts == {"", "# Topic"}

AppStates == {"IDLE", "RECORDING", "REVIEW", "PROCESSING", "COMPLETED", "ERROR"}

Calls == 1..MaxStarts

VARIABLES
  appState,          \* useState<AppState>
  session,           \* useState<NoteSession | null>
  stream,            \* useState<MediaStream | null>: 0 or the stream's index
  duration,          \* useState(0): the elapsed counter
  error,             \* useState<string | null>
  mediaRecorderRef,  \* 0 or the index of the recorder held
  chunksRef,         \* the chunks pushed by ondataavailable
  timerRef,          \* 0 or the index of the interval held
  call,              \* per startRecording call: where it stands
  capDuration,       \* per call: `duration` as the call's closure captured it
  liveStreams,       \* streams acquired whose tracks have not been stopped
  timers,            \* intervals set and not cleared
  gens,              \* generateNotes calls awaiting generateNotesFromAudio
  nGens,             \* generateNotes calls made so far
  createdUrls,       \* object URLs made by URL.createObjectURL
  revokedUrls,       \* object URLs released by URL.revokeObjectURL
  audioContextRef,   \* Visualizer: 0 or the AudioContext the instance holds
  nContexts,         \* AudioContexts created so far
  sourceRef,         \* Visualizer: 0 or the source node the instance holds
  connected,         \* source nodes connected and not disconnected
  animationRef,      \* Visualizer: 0 or the last animation frame requested
  frames,            \* animation frames requested and not cancelled
  effectLive,        \* the last effect run returned its cleanup
  dataArray,         \* the last snapshot read by draw (one bin)
  notesText,         \* renderMarkdown: the notes text, a sequence of characters
  blocks,            \* renderMarkdown: the elements returned, <<>> for null
  rendered           \* renderMarkdown has been applied to notesText

appVars == <<appState, session, stream, duration, error, mediaRecorderRef, chunksRef,
             timerRef, call, capDuration, liveStreams, timers, gens, nGens,
             createdUrls, revokedUrls>>

vizVars == <<audioContextRef, nContexts, sourceRef, connected, animationRef, frames,
             effectLive, dataArray>>

fmtVars == <<notesText, blocks, rendered>>

vars == <<appVars, vizVars, fmtVars>>

browser == <<liveStreams, timers, createdUrls, revokedUrls>>

CallStates == {"unused", "pending", "denied", "ctorFailed", "startFailed",
               "recording", "stopping", "stopped"}

AppInit ==
  /\ appState = "IDLE"
  /\ session = <<>>
  /\ stream = 0
  /\ duration = 0
  /\ error = Null
  /\ mediaRecorderRef = 0
  /\ chunksRef = <<>>
  /\ timerRef = 0
  /\ call = [k \in Calls |-> "unused"]
  /\ capDuration = [k \in Calls |-> 0]
  /\ liveStreams = {}
  /\ timers = {}
  /\ gens = {}
  /\ nGens = 0
  /\ createdUrls = {}
  /\ revokedUrls = {}
  /\ audioContextRef = 0
  /\ nContexts = 0
  /\ sourceRef = 0
  /\ connected = {}
  /\ animationRef = 0
  /\ frames = {}
  /\ effectLive = FALSE
  /\ dataArray = 0

Init ==
  /\ AppInit
  /\ notesText = <<>>
  /\ blocks = <<>>
  /\ rendered = FALSE

----------------------------------------------------------------------------
\* What the render offers.

RecordButtonShown == appState = "IDLE"
StopButtonShown == appState = "RECORDING"
ReviewPanelShown == appState \in {"REVIEW", "PROCESSING"} /\ session # <<>>
DiscardEnabled == ReviewPanelShown /\ appState # "PROCESSING"
GenerateEnabled == ReviewPanelShown /\ appState # "PROCESSING"
CompletedViewShown == appState = "COMPLETED" /\ session # <<>>

----------------------------------------------------------------------------
\* startRecording, up to its await: the click on the record button.
StartRecording(k) ==
  /\ RecordButtonShown
  /\ call[k] = "unused"
  /\ \A j \in Calls : j < k => call[j] # "unused"
  /\ error' = Null
  /\ call' = [call EXCEPT ![k] = "pending"]
  /\ capDuration' = [capDuration EXCEPT ![k] = duration]
  /\ UNCHANGED <<appState, session, stream, duration, mediaRecorderRef, chunksRef,
                 timerRef, gens, nGens, browser>>

\* getUserMedia rejects: the catch block.
StartDenied(k) ==
  /\ call[k] = "pending"
  /\ call' = [call EXCEPT ![k] = "denied"]
  /\ error' = ErrMic
  /\ UNCHANGED <<appState, session, stream, duration, mediaRecorderRef, chunksRef,
                 timerRef, capDuration, gens, nGens, browser>>

\* getUserMedia resolves and `new MediaRecorder` throws: setStream has run.
StartCtorThrows(k) ==
  /\ call[k] = "pending"
  /\ call' = [call EXCEPT ![k] = "ctorFailed"]
  /\ stream' = k
  /\ liveStreams' = liveStreams \cup {k}
  /\ error' = ErrMic
  /\ UNCHANGED <<appState, session, duration, mediaRecorderRef, chunksRef, timerRef,
                 capDuration, timers, gens, nGens, createdUrls, revokedUrls>>

\* getUserMedia resolves and mediaRecorder.start() throws: the ref holds the
\* new, inactive recorder and the chunks are reset.
StartStartThrows(k) ==
  /\ call[k] = "pending"
  /\ call' = [call EXCEPT ![k] = "startFailed"]
  /\ stream' = k
  /\ liveStreams' = liveStreams \cup {k}
  /\ mediaRecorderRef' = k
  /\ chunksRef' = <<>>
  /\ error' = ErrMic
  /\ UNCHANGED <<appState, session, duration, timerRef, capDuration, timers, gens,
                 nGens, createdUrls, revokedUrls>>

\* getUserMedia resolves and the rest of the try block runs.
StartOk(k) ==
  /\ call[k] = "pending"
  /\ call' = [call EXCEPT ![k] = "recording"]
  /\ stream' = k
  /\ liveStreams' = liveStreams \cup {k}
  /\ mediaRecorderRef' = k
  /\ chunksRef' = <<>>
  /\ appState' = "RECORDING"
  /\ duration' = 0
  /\ timerRef' = k
  /\ timers' = timers \cup {k}
  /\ UNCHANGED <<session, error, capDuration, gens, nGens, createdUrls, revokedUrls>>

\* The interval callback setDuration(prev => prev + 1) of timer t.
Tick(t) ==
  /\ t \in timers
  /\ duration < MaxTicks
  /\ duration' = duration + 1
  /\ UNCHANGED <<appState, session, stream, error, mediaRecorderRef, chunksRef,
                 timerRef, call, capDuration, gens, nGens, browser>>

\* stopRecording: the click on the stop button.  On a recorder that never
\* started (start() threw) stop() either throws, which leaves everything as it
\* is, or does nothing and the handler goes on; the second outcome is the step.
StopRecording ==
  /\ StopButtonShown
  /\ mediaRecorderRef # 0 /\ appState = "RECORDING"
  /\ call' = IF call[mediaRecorderRef] = "recording"
             THEN [call EXCEPT ![mediaRecorderRef] = "stopping"]
             ELSE call
  /\ timers' = IF timerRef # 0 THEN timers \ {timerRef} ELSE timers
  /\ appState' = "REVIEW"
  /\ UNCHANGED <<session, stream, duration, error, mediaRecorderRef, chunksRef,
                 timerRef, capDuration, liveStreams, gens, nGens, createdUrls,
                 revokedUrls>>

\* new Blob(chunksRef.current, { type: 'audio/webm' })
NewBlob(chunks) == [parts |-> chunks, type |-> "audio/webm"]

\* The object literal passed to setSession in onstop, for the recorder of call k.
NewSession(k, blob) ==
  [id |-> k, audioBlob |-> blob, audioUrl |-> k, duration |-> capDuration[k],
   notes |-> Null]

\* The task the recorder queues after stop(): ondataavailable, then onstop.
OnStop(k, hasData) ==
  /\ call[k] = "stopping"
  /\ call' = [call EXCEPT ![k] = "stopped"]
  /\ chunksRef' = IF hasData THEN Append(chunksRef, k) ELSE chunksRef
  /\ createdUrls' = createdUrls \cup {k}
  /\ session' = <<NewSession(k, NewBlob(chunksRef'))>>
  /\ liveStreams' = liveStreams \ {k}
  /\ stream' = 0
  /\ UNCHANGED <<appState, duration, error, mediaRecorderRef, timerRef, capDuration,
                 timers, gens, nGens, revokedUrls>>

\* generateNotes, up to its await: the click on Generate Notes.
GenerateNotes ==
  /\ GenerateEnabled
  /\ nGens < MaxGens
  /\ appState' = "PROCESSING"
  /\ nGens' = nGens + 1
  /\ gens' = gens \cup {[gid |-> nGens + 1, sid |-> session[1].id,
                         blob |-> session[1].audioBlob]}
  /\ UNCHANGED <<session, stream, duration, error, mediaRecorderRef, chunksRef,
                 timerRef, call, capDuration, browser>>

\* response.text || "No notes could be generated."
NotesOf(text) == IF text = "" THEN Fallback ELSE text

\* setSession(prev => prev ? { ...prev, notes } : null)
AttachNotes(prev, notes) ==
  IF prev # <<>> THEN <<[prev[1] EXCEPT !.notes = notes]>> ELSE <<>>

\* generateNotesFromAudio resolves.
GenSucceeds(g, text) ==
  /\ g \in gens
  /\ gens' = gens \ {g}
  /\ session' = AttachNotes(session, NotesOf(text))
  /\ appState' = "COMPLETED"
  /\ UNCHANGED <<stream, duration, error, mediaRecorderRef, chunksRef, timerRef,
                 call, capDuration, nGens, browser>>

\* generateNotesFromAudio rejects: the catch block.
GenFails(g) ==
  /\ g \in gens
  /\ gens' = gens \ {g}
  /\ error' = ErrGen
  /\ appState' = "REVIEW"
  /\ UNCHANGED <<session, stream, duration, mediaRecorderRef, chunksRef, timerRef,
                 call, capDuration, nGens, browser>>

\* reset: Discard in the review panel, New Recording or Delete in the notes view.
Reset ==
  /\ DiscardEnabled \/ CompletedViewShown
  /\ appState' = "IDLE"
  /\ session' = <<>>
  /\ duration' = 0
  /\ error' = Null
  /\ UNCHANGED <<stream, mediaRecorderRef, chunksRef, timerRef, call, capDuration,
                 gens, nGens, browser>>

----------------------------------------------------------------------------
\* The Visualizer.

\* What getByteFrequencyData may put in a bin: an 8-bit magnitude.
Amplitudes == {0, 255}

\* {appState === AppState.RECORDING && <Visualizer stream={stream} isRecording={true} />}
VisualizerMounted(st) == st = "RECORDING"

\* The guard of the effect: if (!stream || !isRecording || !canvasRef.current) return
EffectGuard(str, isRecording) == str # 0 /\ isRecording

\* A cleanup that leaves the requested frame in place.
CancelFrameForgotten(fr, ref) == fr

\* The cleanup: cancelAnimationFrame(animationRef.current)
CancelFrame(fr, ref) == IF ref # 0 THEN fr \ {ref} ELSE fr

\* The cleanup: sourceRef.current?.disconnect()
Disconnect(conn, src) == IF src # 0 THEN conn \ {src} ELSE conn

\* The render after a step of App: the Visualizer is mounted (a new instance,
\* its refs empty), unmounted, or kept; the effect's cleanup runs when the
\* instance goes or the stream changes, the effect when it comes or the stream
\* changes.  The effect's first draw() runs in the effect.
VisualizerCommit ==
  LET was == VisualizerMounted(appState)
      is == VisualizerMounted(appState')
      rerun == is /\ (~was \/ stream' # stream)
      clean == effectLive /\ was /\ (~is \/ stream' # stream)
      runs == rerun /\ EffectGuard(stream', TRUE)
      frames1 == IF clean THEN CancelFrame(frames, animationRef) ELSE frames
      connected1 == IF clean THEN Disconnect(connected, sourceRef) ELSE connected
      ctx0 == IF was /\ is THEN audioContextRef ELSE 0
      src0 == IF was /\ is THEN sourceRef ELSE 0
      anim0 == IF was /\ is THEN animationRef ELSE 0
  IN /\ nContexts' = IF runs /\ ctx0 = 0 THEN nContexts + 1 ELSE nContexts
     /\ audioContextRef' = IF runs /\ ctx0 = 0 THEN nContexts + 1 ELSE ctx0
     /\ sourceRef' = IF runs THEN stream' ELSE src0
     /\ connected' = IF runs THEN connected1 \cup {stream'} ELSE connected1
     /\ animationRef' = IF runs THEN stream' ELSE anim0
     /\ frames' = IF runs THEN frames1 \cup {stream'} ELSE frames1
     /\ effectLive' = IF rerun THEN runs ELSE (effectLive /\ is)
     /\ dataArray' \in IF runs THEN Amplitudes ELSE {dataArray}

\* draw, called for the animation frame f: it requests the next frame and
\* reads a snapshot.
Frame(f, a) ==
  /\ f \in frames
  /\ animationRef' = f
  /\ dataArray' = a
  /\ UNCHANGED <<appVars, audioContextRef, nContexts, sourceRef, connected, frames,
                 effectLive>>

Next ==
  \/ \E k \in Calls : StartRecording(k) /\ VisualizerCommit
       /\ UNCHANGED fmtVars
  \/ \E k \in Calls : StartDenied(k) /\ VisualizerCommit
       /\ UNCHANGED fmtVars
  \/ \E k \in Calls : StartCtorThrows(k) /\ VisualizerCommit
       /\ UNCHANGED fmtVars
  \/ \E k \in Calls : StartStartThrows(k) /\ VisualizerCommit
       /\ UNCHANGED fmtVars
  \/ \E k \in Calls : StartOk(k) /\ VisualizerCommit
       /\ UNCHANGED fmtVars
  \/ \E t \in Calls : Tick(t) /\ VisualizerCommit
       /\ UNCHANGED fmtVars
  \/ StopRecording /\ VisualizerCommit
       /\ UNCHANGED fmtVars
  \/ \E k \in Calls : \E hasData \in BOOLEAN : OnStop(k, hasData) /\ VisualizerCommit
       /\ UNCHANGED fmtVars
  \/ GenerateNotes /\ VisualizerCommit
       /\ UNCHANGED fmtVars
  \/ \E g \in gens : \E text \in ResponseTexts : GenSucceeds(g, text) /\ VisualizerCommit
       /\ UNCHANGED fmtVars
  \/ \E g \in gens : GenFails(g) /\ VisualizerCommit
       /\ UNCHANGED fmtVars
  \/ Reset /\ VisualizerCommit
       /\ UNCHANGED fmtVars
  \/ \E f \in Calls : \E a \in Amplitudes : Frame(f, a)
       /\ UNCHANGED fmtVars

Spec == Init /\ [][Next]_vars

TypeOK ==
  /\ appState \in AppStates
  /\ Len(session) <= 1
  /\ stream \in 0..MaxStarts
  /\ duration \in 0..MaxTicks
  /\ error \in {Null, ErrMic, ErrGen}
  /\ mediaRecorderRef \in 0..MaxStarts
  /\ timerRef \in 0..MaxStarts
  /\ call \in [Calls -> CallStates]
  /\ liveStreams \subseteq Calls
  /\ timers \subseteq Calls
  /\ nGens \in 0..MaxGens
  /\ createdUrls \subseteq Calls
  /\ revokedUrls \subseteq Calls
  /\ audioContextRef \in 0..MaxStarts
  /\ nContexts \in 0..MaxStarts
  /\ sourceRef \in 0..MaxStarts
  /\ connected \subseteq Calls
  /\ animationRef \in 0..MaxStarts
  /\ frames \subseteq Calls
  /\ effectLive \in BOOLEAN
  /\ dataArray \in Amplitudes
  /\ Len(notesText) <= MaxTextLen
  /\ rendered \in BOOLEAN
  /\ Len(blocks) <= MaxTextLen + 1

----------------------------------------------------------------------------
\* Steps by kind, for the properties below.

Pending == {k \in Calls : call[k] = "pending"}

StartFailsStep ==
  \E k \in Calls : StartDenied(k) \/ StartCtorThrows(k) \/ StartStartThrows(k)

StartStep == (\E k \in Calls : StartRecording(k) \/ StartOk(k)) \/ StartFailsStep

OnStopStep == \E k \in Calls : \E hasData \in BOOLEAN : OnStop(k, hasData)

\* The session the call g was made for is no longer the current one.
Stale(g) == session = <<>> \/ session[1].id # g.sid

----------------------------------------------------------------------------
\* C1: the Session that the stop constructs has durationSeconds equal to the
\* value the elapsed counter has reached (the ticks counted while Capturing),
\* and the state is then Review.
C1_DurationIsTickCount ==
  [][OnStopStep =>
       /\ session' # <<>>
       /\ session'[1].duration = duration
       /\ appState' = "REVIEW"]_vars

\* C2: every playback handle created is released exactly once when its session
\* is discarded or replaced: the handles created and not released are exactly
\* the handle of the current session, none when there is no session.
C2_HandlesReleased ==
  /\ revokedUrls \subseteq createdUrls
  /\ createdUrls \ revokedUrls =
       IF session = <<>> THEN {} ELSE {session[1].audioUrl}

\* C3: when a note-generation call is rejected in Processing, the machine is
\* in Review afterwards with a non-empty error message, and the Session is
\* present and unchanged, its notes still absent.
C3_RejectKeepsSession ==
  [][\A g \in gens :
       (GenFails(g) /\ appState = "PROCESSING") =>
         /\ appState' = "REVIEW"
         /\ error' # Null
         /\ session' = session
         /\ session' # <<>>
         /\ session'[1].notes = Null]_vars

\* C4: after a failed note-generation attempt on the current session the
\* Generate control is offered again in Review, and a call that succeeds after
\* a failure attaches its notes to the session the call was made for: same id,
\* same audio artifact as was sent.
C4_RetrySameSession ==
  [][\A g \in gens :
       /\ (GenFails(g) /\ ~Stale(g)) => GenerateEnabled'
       /\ \A text \in ResponseTexts :
            (error = ErrGen /\ GenSucceeds(g, text)) =>
              /\ session' # <<>>
              /\ session'[1].id = g.sid
              /\ session'[1].audioBlob = g.blob
              /\ session'[1].notes # Null]_vars

\* C5: when startRecording fails, the state stays Idle, the error message is
\* non-empty and nothing is held: no stream is stored, no acquired stream is
\* left with live tracks, no interval is running.
C5_FailedStartHoldsNothing ==
  [][StartFailsStep =>
       /\ appState = "IDLE" /\ appState' = "IDLE"
       /\ error' # Null
       /\ stream' = 0
       /\ liveStreams' = {}
       /\ timers' = {}]_vars

\* C6: the resolution, success or failure, of a note-generation call whose
\* session has been discarded or replaced changes neither the current session
\* nor the state nor the error message.
C6_StaleResultDropped ==
  [][\A g \in gens :
       (Stale(g) /\ (GenFails(g) \/ \E text \in ResponseTexts : GenSucceeds(g, text)))
         => /\ session' = session
            /\ appState' = appState
            /\ error' = error]_vars

\* C7: the state is always one of the six states, and every step of an event
\* is taken in the event's source state: StartCapture in Idle, StopCapture in
\* Capturing, GenerateNotes in Review and its resolution in Processing,
\* Discard and Reset in Review, Completed or Failed.
C7_EventsInSourceState ==
  [][/\ appState' \in AppStates
     /\ StartStep => appState = "IDLE"
     /\ StopRecording => appState = "RECORDING"
     /\ GenerateNotes => appState = "REVIEW"
     /\ (\A g \in gens :
           (GenFails(g) \/ \E text \in ResponseTexts : GenSucceeds(g, text))
             => appState = "PROCESSING")
     /\ Reset => appState \in {"REVIEW", "COMPLETED", "ERROR"}]_vars

\* C8: at most one microphone acquisition is in flight, and there are never
\* two acquired streams with live tracks, two recorders recording or two
\* elapsed-time intervals running.
C8_OneAcquisition ==
  /\ Cardinality(Pending) <= 1
  /\ Cardinality(liveStreams) <= 1
  /\ Cardinality({k \in Calls : call[k] = "recording"}) <= 1
  /\ Cardinality(timers) <= 1

\* C9: at most one note-generation call is in flight at any time.
C9_OneGeneration == Cardinality(gens) <= 1

\* C10: no interval is running in any state other than Capturing, and the
\* elapsed counter increases only in Capturing.
C10_TicksOnlyWhileCapturing ==
  [][/\ appState' # "RECORDING" => timers' = {}
     /\ duration' > duration => appState = "RECORDING"]_vars

\* C11: once a stop task has finalized the encoder and none is pending, in
\* Review, Processing, Completed and in Idle after a reset, every stream that
\* was acquired has had its tracks stopped and no stream is stored.
C11_StreamsReleased ==
  (/\ appState \in {"REVIEW", "PROCESSING", "COMPLETED", "IDLE"}
   /\ \E k \in Calls : call[k] = "stopped"
   /\ \A k \in Calls : call[k] # "stopping")
    => (liveStreams = {} /\ stream = 0)

\* Nothing can move the machine: the render offers no control and no
\* acquisition, stop task or note-generation call is outstanding.
Stuck ==
  /\ ~RecordButtonShown /\ ~StopButtonShown
  /\ ~DiscardEnabled /\ ~GenerateEnabled /\ ~CompletedViewShown
  /\ Pending = {}
  /\ \A k \in Calls : call[k] # "stopping"
  /\ gens = {}

\* C12: no reachable state is a dead end: in every state some user action or
\* some outstanding asynchronous operation can still move the machine (the
\* least that a path back to Idle needs).
C12_NoDeadEnd == ~Stuck

\* C13: an animation frame of the Visualizer is requested, and so a draw frame
\* can run, only while the machine is in Capturing with a stream stored; when
\* Capturing is left or the stream is cleared the pending frame is cancelled.
C13_FramesOnlyWhileCapturing ==
  frames # {} => (appState = "RECORDING" /\ stream # 0 /\ frames = {stream})

\* A capture whose Visualizer drew snapshots has been stopped.
C13_CaptureLeftAfterFrames ==
  /\ appState = "REVIEW"
  /\ nContexts > 0
  /\ dataArray = 255
  /\ frames = {}

\* C14: over any number of captures at most one AudioContext is created, and
\* no source node stays connected once the capture it was made for has ended.
C14_OneContextReused ==
  /\ nContexts <= 1
  /\ appState # "RECORDING" => connected = {}

\* C15: while a session exists (same id before and after a step) its audio
\* artifact does not change, and its notes, once present, neither change nor
\* become absent again.
C15_ArtifactAndNotesFixed ==
  [][(session # <<>> /\ session' # <<>> /\ session'[1].id = session[1].id) =>
       /\ session'[1].audioBlob = session[1].audioBlob
       /\ session[1].notes # Null => session'[1].notes = session[1].notes]_vars

\* C16: Discard and Reset put the machine in Idle with no session, no error
\* message and the elapsed counter at 0, and leave no interval running and no
\* microphone stream live or stored.
C16_ResetLeavesNothing ==
  [][Reset =>
       /\ appState' = "IDLE"
       /\ session' = <<>>
       /\ error' = Null
       /\ duration' = 0
       /\ timers' = {}
       /\ liveStreams' = {}
       /\ stream' = 0]_vars

\* C17: in Review, Processing and Completed a Session is present (its audio
\* artifact with it); there is no Review state with no session.
C17_SessionPresent ==
  appState \in {"REVIEW", "PROCESSING", "COMPLETED"} => session # <<>>

\* C18: in Completed there is no error message.
C18_NoErrorInCompleted == appState = "COMPLETED" => error = Null

\* C19: a session's notes are present exactly when the machine is in
\* Completed, and notes that are present are not the empty text.
C19_NotesIffCompleted ==
  session # <<>> =>
    /\ (session[1].notes # Null) <=> (appState = "COMPLETED")
    /\ session[1].notes # ""

\* C20: the state ERROR is never entered, and every failure, of a capture
\* start or of a note generation, leaves the machine in Idle or Review with an
\* error message set.
C20_FailuresStayIdleOrReview ==
  [][/\ appState' # "ERROR"
     /\ (StartFailsStep \/ \E g \in gens : GenFails(g)) =>
          (appState' \in {"IDLE", "REVIEW"} /\ error' # Null)]_vars

----------------------------------------------------------------------------
\* renderMarkdown.

\* The characters of the texts tried: one of each kind the rules look at.
Alphabet == {"#", " ", "-", "*", "1", ".", "a", "\n"}

Texts == UNION {[1..n -> Alphabet] : n \in 0..MaxTextLen}

\* \d of the regular expression
Digits == {"0", "1", "2", "3", "4", "5", "6", "7", "8", "9"}

\* What String.prototype.trim removes (of the characters tried)
Whitespace == {" ", "\n", "\t", "\r"}

\* s.indexOf(p) + 1: where p first occurs in s, 0 if nowhere
IndexOf(s, p) ==
  LET I == {i \in 1..(Len(s) - Len(p) + 1) : SubSeq(s, i, i + Len(p) - 1) = p}
  IN IF I = {} THEN 0 ELSE CHOOSE i \in I : \A j \in I : i <= j

\* A split that drops the empty lines.
RECURSIVE SplitLinesSkipEmpty(_)
SplitLinesSkipEmpty(s) ==
  LET i == IndexOf(s, <<"\n">>)
      head == IF i = 0 THEN s ELSE SubSeq(s, 1, i - 1)
      rest == IF i = 0 THEN <<>> ELSE SplitLinesSkipEmpty(SubSeq(s, i + 1, Len(s)))
  IN IF head = <<>> THEN rest ELSE <<head>> \o rest

\* text.split('\n')
RECURSIVE SplitLines(_)
SplitLines(s) ==
  LET i == IndexOf(s, <<"\n">>)
  IN IF i = 0 THEN <<s>>
     ELSE <<SubSeq(s, 1, i - 1)>> \o SplitLines(SubSeq(s, i + 1, Len(s)))

\* line.startsWith(p)
StartsWith(line, p) == Len(line) >= Len(p) /\ SubSeq(line, 1, Len(p)) = p

\* line.endsWith(p)
EndsWith(line, p) ==
  Len(line) >= Len(p) /\ SubSeq(line, Len(line) - Len(p) + 1, Len(line)) = p

\* line.replace(p, ''): the first occurrence of p removed
ReplaceFirst(line, p) ==
  LET i == IndexOf(line, p)
  IN IF i = 0 THEN line
     ELSE SubSeq(line, 1, i - 1) \o SubSeq(line, i + Len(p), Len(line))

\* line.replace(/p/g, ''): every occurrence of p removed, left to right
RECURSIVE ReplaceAll(_, _)
ReplaceAll(line, p) ==
  LET i == IndexOf(line, p)
  IN IF i = 0 THEN line
     ELSE SubSeq(line, 1, i - 1) \o ReplaceAll(SubSeq(line, i + Len(p), Len(line)), p)

\* The length of what /^\d+\. / matches at the start of line, 0 for no match
NumberedMatch(line) ==
  LET d == Cardinality({i \in 1..Len(line) : \A j \in 1..i : line[j] \in Digits})
  IN IF d >= 1 /\ Len(line) >= d + 2 /\ line[d + 1] = "." /\ line[d + 2] = " "
     THEN d + 2 ELSE 0

\* line.trim()
RECURSIVE Trim(_)
Trim(line) ==
  IF line = <<>> THEN line
  ELSE IF Head(line) \in Whitespace THEN Trim(Tail(line))
  ELSE IF line[Len(line)] \in Whitespace THEN Trim(SubSeq(line, 1, Len(line) - 1))
  ELSE line

H3 == <<"#", "#", "#", " ">>
H2 == <<"#", "#", " ">>
H1 == <<"#", " ">>
Stars == <<"*", "*">>

\* The callback of map: the element made for one line.
RenderLine(line) ==
  IF StartsWith(line, H3) THEN [kind |-> "h3", content |-> ReplaceFirst(line, H3)]
  ELSE IF StartsWith(line, H2) THEN [kind |-> "h2", content |-> ReplaceFirst(line, H2)]
  ELSE IF StartsWith(line, H1) THEN [kind |-> "h1", content |-> ReplaceFirst(line, H1)]
  ELSE IF StartsWith(line, <<"-", " ">>) \/ StartsWith(line, <<"*", " ">>)
    THEN [kind |-> "li", content |-> SubSeq(line, 3, Len(line))]
  ELSE IF NumberedMatch(line) # 0
    THEN [kind |-> "li list-decimal",
          content |-> SubSeq(line, NumberedMatch(line) + 1, Len(line))]
  ELSE IF StartsWith(line, Stars) /\ EndsWith(line, Stars)
    THEN [kind |-> "p font-bold", content |-> ReplaceAll(line, Stars)]
  ELSE IF Trim(line) = <<>> THEN [kind |-> "div", content |-> <<>>]
  ELSE [kind |-> "p", content |-> line]

\* renderMarkdown: null (here <<>>) for an empty text, else one element per line.
renderMarkdown(t) ==
  IF t = <<>> THEN <<>>
  ELSE LET lines == SplitLines(t)
       IN [i \in 1..Len(lines) |-> RenderLine(lines[i])]

FmtInit ==
  /\ AppInit
  /\ notesText \in Texts
  /\ blocks = <<>>
  /\ rendered = FALSE

\* The notes view renders the text: renderMarkdown(session.notes).
Render ==
  /\ ~rendered
  /\ blocks' = renderMarkdown(notesText)
  /\ rendered' = TRUE
  /\ UNCHANGED <<appVars, vizVars, notesText>>

FmtNext == Render

SpecFmt == FmtInit /\ [][FmtNext]_vars

----------------------------------------------------------------------------
\* The claim's reading of a text, stated on positions.

NewlinesOf(t) == {i \in 1..Len(t) : t[i] = "\n"}

\* The position of the k-th newline of t
KthNewline(t, k) ==
  CHOOSE p \in NewlinesOf(t) : Cardinality({q \in NewlinesOf(t) : q <= p}) = k

\* The i-th line of t: what lies between the newlines i-1 and i
LineOf(t, i) ==
  LET first == IF i = 1 THEN 1 ELSE KthNewline(t, i - 1) + 1
      last == IF i = Cardinality(NewlinesOf(t)) + 1 THEN Len(t)
              ELSE KthNewline(t, i) - 1
  IN SubSeq(t, first, last)

Has(line, i, c) == i >= 1 /\ Len(line) >= i /\ line[i] = c

\* The first rule of the claim's list that the line matches
KindByRules(line) ==
  IF Has(line, 1, "#") /\ Has(line, 2, "#") /\ Has(line, 3, "#") /\ Has(line, 4, " ")
    THEN "h3"
  ELSE IF Has(line, 1, "#") /\ Has(line, 2, "#") /\ Has(line, 3, " ") THEN "h2"
  ELSE IF Has(line, 1, "#") /\ Has(line, 2, " ") THEN "h1"
  ELSE IF (Has(line, 1, "-") \/ Has(line, 1, "*")) /\ Has(line, 2, " ") THEN "li"
  ELSE IF \E d \in 1..Len(line) :
            /\ \A j \in 1..d : line[j] \in Digits
            /\ Has(line, d + 1, ".") /\ Has(line, d + 2, " ")
    THEN "li list-decimal"
  ELSE IF /\ Has(line, 1, "*") /\ Has(line, 2, "*")
          /\ Has(line, Len(line) - 1, "*") /\ Has(line, Len(line), "*")
    THEN "p font-bold"
  ELSE IF \A j \in 1..Len(line) : line[j] \in Whitespace THEN "div"
  ELSE "p"

\* C21: for a non-empty text the formatter returns exactly one block per
\* line of the text, in the order of the lines, each of the kind of the first
\* rule its line matches: '### ' h3, '## ' h2, '# ' h1, '- ' or '* ' list
\* item, 'N. ' numbered list item, '**...**' bold paragraph, blank spacer,
\* otherwise paragraph.  (The formatter reads nothing but its argument, so
\* a second application has the same result by construction.)
C21_OneBlockPerLine ==
  (rendered /\ notesText # <<>>) =>
    /\ Len(blocks) = Cardinality(NewlinesOf(notesText)) + 1
    /\ \A i \in 1..Len(blocks) :
         blocks[i].kind = KindByRules(LineOf(notesText, i))

\* A text of two lines, a heading and a list item, has been rendered.
C21_HeadingThenItem ==
  /\ rendered
  /\ notesText = <<"#", " ", "\n", "-", " ">>
  /\ Len(blocks) = 2
  /\ blocks[1] = [kind |-> "h1", content |-> <<>>]
  /\ blocks[2] = [kind |-> "li", content |-> <<>>]

====
